---- MODULE Spec2Model ----
(***************************************************************************)
(* Model of the session/user manager of sessiond (src/src/main.rs) and of  *)
(* the constant-database codec it persists through (src/src/cdb.rs).       *)
(*                                                                         *)
(* Strings are sequences of one-character strings, so that formatting a    *)
(* user record, splitting a listing line at its first blank and tokenising    *)
(* a stored value are computed the way the code computes them.  A CDB file *)
(* is the sequence of its <<key, value>> records in file order.            *)
(***************************************************************************)
EXTENDS Integers, Sequences, FiniteSets, TLC

\* ---------------------------------------------------------------- constants
LOCK_COUNT == 5
SESSION_PERIOD == 3600
U8_MAX == 255

\* ------------------------------------------------------------------- bounds
\* the clock reading when the daemon starts
StartTime == 5
\* operations in one behaviour of Spec (each takes one second of the clock)
MaxTick == 4
\* connections served at a time in SpecConc
MaxConns == 2
\* manager operations in one behaviour of SpecConc
MaxTickConc == 2
\* operations in one behaviour of SpecLock
MaxTickLock == 7
\* seconds of the clock in one behaviour of SpecSess
MaxTimeSess == 3602
\* tokens issued in one behaviour of SpecSess
MaxIssuedSess == 2
\* client requests and failing autosaves in one behaviour of SpecLive
MaxTickLive == 4
\* tokens issued in one behaviour of SpecSeq
MaxIssuedSeq == 258
\* seconds of the clock in one behaviour of SpecFrame
MaxTimeFrame == 3602
\* tokens issued in one behaviour of SpecFrame
MaxIssuedFrame == 2

\* ------------------------------------------------------------------ strings
SPC == " "
Digit == <<"0", "1", "2", "3", "4", "5", "6", "7", "8", "9">>
EMPTY == <<>>
NameA == <<"a">>
PassP == <<"p">>

Names == {EMPTY, NameA}
Passwords == {EMPTY, PassP}
RandPrefixes == {0}

IsDigit(c) == \E i \in 1..10 : Digit[i] = c
DigitVal(c) == (CHOOSE i \in 1..10 : Digit[i] = c) - 1

RECURSIVE DecNat(_)
DecNat(n) == IF n < 10 THEN <<Digit[n + 1]>>
             ELSE DecNat(n \div 10) \o <<Digit[(n % 10) + 1]>>

\* i64::to_string / u64::to_string
int_to_string(n) == IF n < 0 THEN <<"-">> \o DecNat(0 - n) ELSE DecNat(n)

RECURSIVE DigitsVal(_, _)
DigitsVal(s, acc) == IF s = <<>> THEN acc
                     ELSE DigitsVal(Tail(s), acc * 10 + DigitVal(Head(s)))

AllDigits(s) == s # <<>> /\ \A i \in 1..Len(s) : IsDigit(s[i])

\* i64::from_str_radix(s, 10).unwrap_or(0)
i64_from_str(s) ==
    IF s # <<>> /\ Head(s) = "-"
    THEN (IF AllDigits(Tail(s)) THEN 0 - DigitsVal(Tail(s), 0) ELSE 0)
    ELSE IF s # <<>> /\ Head(s) = "+"
    THEN (IF AllDigits(Tail(s)) THEN DigitsVal(Tail(s), 0) ELSE 0)
    ELSE IF AllDigits(s) THEN DigitsVal(s, 0) ELSE 0

\* u64::from_str_radix(s, 10).unwrap_or(0)
u64_from_str(s) ==
    IF s # <<>> /\ Head(s) = "+"
    THEN (IF AllDigits(Tail(s)) THEN DigitsVal(Tail(s), 0) ELSE 0)
    ELSE IF AllDigits(s) THEN DigitsVal(s, 0) ELSE 0

\* str::find(char::is_whitespace): 1-based index of the first blank, 0 = None
find_whitespace(s) ==
    IF \E i \in 1..Len(s) : s[i] = SPC
    THEN CHOOSE i \in 1..Len(s) : s[i] = SPC /\ \A j \in 1..(i - 1) : s[j] # SPC
    ELSE 0

\* str::split_whitespace: the non-empty maximal blank-free pieces, in order
RECURSIVE split_ws(_, _, _)
split_ws(s, cur, acc) ==
    IF s = <<>> THEN (IF cur = <<>> THEN acc ELSE Append(acc, cur))
    ELSE IF Head(s) = SPC
         THEN split_ws(Tail(s), <<>>, IF cur = <<>> THEN acc ELSE Append(acc, cur))
         ELSE split_ws(Tail(s), Append(cur, Head(s)), acc)

split_whitespace(s) == split_ws(s, <<>>, <<>>)

\* ------------------------------------------------------------- user record
\* User::new
User_new(name, password, t) ==
    [name |-> name, password |-> password, created |-> t, updated |-> 0,
     deleted |-> 0, last_loggedin |-> 0, failed |-> 0, fail_count |-> 0,
     locked |-> 0]

\* User::parse
User_parse(name, rest) ==
    LET parts == split_whitespace(rest)
        str(i) == IF i <= Len(parts) THEN parts[i] ELSE <<>>
        i64(i) == IF i <= Len(parts) THEN i64_from_str(parts[i]) ELSE 0
        u64(i) == IF i <= Len(parts) THEN u64_from_str(parts[i]) ELSE 0
    IN  [name |-> name, password |-> str(1), created |-> i64(2),
         updated |-> i64(3), deleted |-> i64(4), last_loggedin |-> i64(5),
         failed |-> i64(6), fail_count |-> u64(7), locked |-> i64(8)]

\* User::to_string
User_to_string(u) ==
    u.name \o <<SPC>> \o u.password \o <<SPC>> \o int_to_string(u.created)
      \o <<SPC>> \o int_to_string(u.updated) \o <<SPC>> \o int_to_string(u.deleted)
      \o <<SPC>> \o int_to_string(u.last_loggedin) \o <<SPC>> \o int_to_string(u.failed)
      \o <<SPC>> \o int_to_string(u.fail_count) \o <<SPC>> \o int_to_string(u.locked)

is_deleted(u) == u.deleted # 0
is_locked(u) == u.locked # 0

\* ------------------------------------------------------------------- codec
Err == [ok |-> FALSE, val |-> <<>>]
Ok(v) == [ok |-> TRUE, val |-> v]

\* cdb_find: the record a lookup of key selects, 0 when there is none; of
\* duplicate keys the last one added wins
cdb_find(recs, key) ==
    IF \E i \in 1..Len(recs) : recs[i][1] = key
    THEN CHOOSE i \in 1..Len(recs) :
            recs[i][1] = key /\ \A j \in (i + 1)..Len(recs) : recs[j][1] # key
    ELSE 0

\* cdb_get: io = TRUE when the file cannot be opened or read
cdb_get(recs, key, io) ==
    IF io \/ cdb_find(recs, key) = 0 THEN Err
    ELSE Ok(recs[cdb_find(recs, key)][2])

\* cdb_export: one line "key value" per record, in file order
cdb_export(recs) == [i \in 1..Len(recs) |-> recs[i][1] \o <<SPC>> \o recs[i][2]]

\* cdb_import: every line that holds a blank becomes a record, split at its
\* first blank; lines without one are skipped
RECURSIVE cdb_import(_)
cdb_import(lines) ==
    IF lines = <<>> THEN <<>>
    ELSE LET line == Head(lines)
             pos == find_whitespace(line)
         IN  IF pos # 0
             THEN <<<<SubSeq(line, 1, pos - 1), SubSeq(line, pos + 1, Len(line))>>>>
                    \o cdb_import(Tail(lines))
             ELSE cdb_import(Tail(lines))

\* -------------------------------------------------------------------- maps
EmptyMap == [k \in {} |-> 0]
Put(m, k, v) == [x \in (DOMAIN m) \cup {k} |-> IF x = k THEN v ELSE m[x]]
Del(m, k) == [x \in (DOMAIN m) \ {k} |-> m[x]]
Orders(S) == {s \in [1..Cardinality(S) -> S] :
                 \A i, j \in 1..Cardinality(S) : i # j => s[i] # s[j]}

\* ------------------------------------------------------------------- state
VARIABLES
    created_users,   \* SessionManager.created_users : name -> User
    updated_users,   \* SessionManager.updated_users : name -> User
    sessions,        \* SessionManager.sessions : token -> Session
    seqno,           \* SessionManager.seqno
    users_cdb,       \* records of the live file users.cdb
    now,             \* time::get_time().sec
    ret,             \* the last operation, its arguments and what it returned
    issued,          \* the sequence bytes of the tokens issued since the start
    lock,            \* the thread that holds the Mutex around the SessionManager
    pc,              \* where each handler thread and the maintenance thread is
    request,            \* the request line each connection's handler has read
    out              \* the response lines written to each connection

vars == <<created_users, updated_users, sessions, seqno, users_cdb, now, ret, issued,
          lock, pc, request, out>>

\* the threads: one handler per connection, and maintenance
Conns == 1..MaxConns
MaintenanceThread == 0
Threads == Conns \cup {MaintenanceThread}
NoHolder == -1
NoLine == [read |-> FALSE, text |-> <<>>]

NoToken == <<>>
Ret(op, name, pass, res, tok) ==
    [op |-> op, name |-> name, pass |-> pass, res |-> res, tok |-> tok]

\* SessionManager::new, started on an empty database
Init ==
    /\ created_users = EmptyMap
    /\ updated_users = EmptyMap
    /\ sessions = EmptyMap
    /\ seqno = 0
    /\ users_cdb = <<>>
    /\ now = StartTime
    /\ ret = Ret("start", EMPTY, EMPTY, "OK", NoToken)
    /\ issued = <<>>
    /\ lock = NoHolder
    /\ pc = [t \in Threads |-> IF t = MaintenanceThread THEN "sleep" ELSE "idle"]
    /\ request = [c \in Conns |-> NoLine]
    /\ out = [c \in Conns |-> <<>>]

\* ------------------------------------------------------------------ lookup
NoUser == User_new(EMPTY, EMPTY, 0)

\* the record the tiers hold for name, probed created, updated, base; the
\* base hit is parsed from the stored value
find(crt, upd, cdb, name) ==
    IF name \in DOMAIN crt THEN [found |-> TRUE, user |-> crt[name]]
    ELSE IF name \in DOMAIN upd THEN [found |-> TRUE, user |-> upd[name]]
    ELSE IF cdb_get(cdb, name, FALSE).ok
    THEN [found |-> TRUE, user |-> User_parse(name, cdb_get(cdb, name, FALSE).val)]
    ELSE [found |-> FALSE, user |-> NoUser]

\* ---------------------------------------------------------------- sessions
\* the counter going from 255 to 1
next_seqno_skip_zero(s) == IF s = U8_MAX THEN 1 ELSE s + 1

\* SessionManager::create_session_id: the counter after one more token
next_seqno(s) == IF s = U8_MAX THEN 0 ELSE s + 1

\* the token: the random prefix and the sequence byte
session_id(rnd, s) == <<rnd, next_seqno(s)>>

\* Session::new
Session_new(name, t) == [name |-> name, last_accessed |-> t]

\* clean removing a session already when its period has just elapsed
clean_at_limit(ss, t) ==
    [k \in {x \in DOMAIN ss : ~(ss[x].last_accessed + SESSION_PERIOD <= t)} |-> ss[k]]

\* SessionManager::clean
clean(ss, t) ==
    [k \in {x \in DOMAIN ss : ~(ss[x].last_accessed + SESSION_PERIOD < t)} |-> ss[k]]

\* is_logged_in accepting a session whose period has just elapsed
session_live_at_limit(session, t) == session.last_accessed + SESSION_PERIOD >= t

\* the test is_logged_in makes on the session it found
session_live(session, t) == session.last_accessed + SESSION_PERIOD > t

\* logout leaving the session in the table
sessions_after_logout_kept(ss, tok) == ss

\* the table after logout found tok in it
sessions_after_logout(ss, tok) == Del(ss, tok)

\* ------------------------------------------------------- lockout accounting
\* the password check made on a record that is neither locked nor deleted
check_password(user, pass, t, login) ==
    IF user.password = pass
    THEN [user EXCEPT !.fail_count = 0,
                      !.last_loggedin = IF login THEN t ELSE @]
    ELSE [user EXCEPT !.failed = t,
                      !.fail_count = @ + 1,
                      !.locked = IF user.fail_count + 1 >= LOCK_COUNT THEN t ELSE @]

\* which records the check is made on, in the created tier
checked_created(user) == ~ is_locked(user)

\* which records the check is made on, in the updated tier and the base tier
checked_stored(user) == ~ is_locked(user) /\ ~ is_deleted(user)

\* the tiers after auth (login = FALSE) or login (login = TRUE), and the result
locate_and_check(name, pass, io, login) ==
    IF name \in DOMAIN created_users
    THEN LET user == created_users[name]
         IN  IF checked_created(user)
             THEN [created |-> Put(created_users, name, check_password(user, pass, now, login)),
                   updated |-> updated_users,
                   result |-> user.password = pass]
             ELSE [created |-> created_users, updated |-> updated_users, result |-> FALSE]
    ELSE IF name \in DOMAIN updated_users
    THEN LET user == updated_users[name]
         IN  IF checked_stored(user)
             THEN [created |-> created_users,
                   updated |-> Put(updated_users, name, check_password(user, pass, now, login)),
                   result |-> user.password = pass]
             ELSE [created |-> created_users, updated |-> updated_users, result |-> FALSE]
    ELSE LET got == cdb_get(users_cdb, name, io)
         IN  IF got.ok
             THEN LET user == User_parse(name, got.val)
                  IN  IF checked_stored(user)
                      THEN [created |-> created_users,
                            updated |-> Put(updated_users, name, check_password(user, pass, now, login)),
                            result |-> user.password = pass]
                      ELSE [created |-> created_users,
                            updated |-> Put(updated_users, name, user),
                            result |-> FALSE]
             ELSE [created |-> created_users, updated |-> updated_users, result |-> FALSE]

\* SessionManager::auth
Auth(name, pass, io) ==
    LET r == locate_and_check(name, pass, io, FALSE)
    IN  /\ created_users' = r.created
        /\ updated_users' = r.updated
        /\ ret' = Ret("auth", name, pass,
                      IF r.result THEN "OK" ELSE "Authentication failed.", NoToken)
        /\ UNCHANGED <<sessions, seqno, users_cdb, issued>>

\* SessionManager::login
Login(name, pass, io, rnd) ==
    LET r == locate_and_check(name, pass, io, TRUE)
    IN  /\ created_users' = r.created
        /\ updated_users' = r.updated
        /\ IF r.result
           THEN /\ seqno' = next_seqno(seqno)
                /\ sessions' = Put(sessions, session_id(rnd, seqno), Session_new(name, now))
                /\ ret' = Ret("login", name, pass, "OK", session_id(rnd, seqno))
                /\ issued' = Append(issued, session_id(rnd, seqno)[2])
           ELSE /\ UNCHANGED <<seqno, sessions, issued>>
                /\ ret' = Ret("login", name, pass, "Login failed.", NoToken)
        /\ UNCHANGED <<users_cdb>>

\* SessionManager::is_logged_in
IsLoggedIn(tok) ==
    /\ IF tok \in DOMAIN sessions /\ session_live(sessions[tok], now)
       THEN /\ sessions' = [sessions EXCEPT ![tok].last_accessed = now]
            /\ ret' = Ret("is_logged_in", sessions[tok].name, EMPTY, "OK", tok)
       ELSE /\ sessions' = sessions
            /\ ret' = Ret("is_logged_in", EMPTY, EMPTY, "Session not found.", tok)
    /\ UNCHANGED <<created_users, updated_users, seqno, users_cdb, issued>>

\* SessionManager::logout
Logout(tok) ==
    /\ IF tok \in DOMAIN sessions
       THEN /\ sessions' = sessions_after_logout(sessions, tok)
            /\ ret' = Ret("logout", sessions[tok].name, EMPTY, "OK", tok)
       ELSE /\ sessions' = sessions
            /\ ret' = Ret("logout", EMPTY, EMPTY, "Session not found.", tok)
    /\ UNCHANGED <<created_users, updated_users, seqno, users_cdb, issued>>

\* create_user without its look at the updated tier
create_allowed_skip_updated(name, io) ==
    /\ name \notin DOMAIN created_users
    /\ ~ cdb_get(users_cdb, name, io).ok

\* the condition under which create_user inserts
create_allowed(name, io) ==
    /\ name \notin DOMAIN created_users
    /\ name \notin DOMAIN updated_users
    /\ ~ cdb_get(users_cdb, name, io).ok

\* SessionManager::create_user
CreateUser(name, pass, io, rnd) ==
    /\ IF create_allowed(name, io)
       THEN /\ created_users' = Put(created_users, name, User_new(name, pass, now))
            /\ seqno' = next_seqno(seqno)
            /\ sessions' = Put(sessions, session_id(rnd, seqno), Session_new(name, now))
            /\ ret' = Ret("create_user", name, pass, "OK", session_id(rnd, seqno))
            /\ issued' = Append(issued, session_id(rnd, seqno)[2])
       ELSE /\ UNCHANGED <<created_users, seqno, sessions, issued>>
            /\ ret' = Ret("create_user", name, pass, "User already exists.", NoToken)
    /\ UNCHANGED <<updated_users, users_cdb>>

\* the record update_user stores
with_password(user, pass, t) == [user EXCEPT !.password = pass, !.updated = t]

\* SessionManager::update_user
UpdateUser(name, pass, io) ==
    LET got == cdb_get(users_cdb, name, io)
        ok(c, u) == /\ created_users' = c
                    /\ updated_users' = u
                    /\ ret' = Ret("update_user", name, pass, "OK", NoToken)
        fail == /\ UNCHANGED <<created_users, updated_users>>
                /\ ret' = Ret("update_user", name, pass, "User not found.", NoToken)
    IN  /\ IF name \in DOMAIN created_users
           THEN ok(Put(created_users, name, with_password(created_users[name], pass, now)),
                   updated_users)
           ELSE IF name \in DOMAIN updated_users
           THEN IF ~ is_deleted(updated_users[name])
                THEN ok(created_users,
                        Put(updated_users, name, with_password(updated_users[name], pass, now)))
                ELSE fail
           ELSE IF got.ok /\ ~ is_deleted(User_parse(name, got.val))
           THEN ok(created_users,
                   Put(updated_users, name, with_password(User_parse(name, got.val), pass, now)))
           ELSE fail
        /\ UNCHANGED <<sessions, seqno, users_cdb, issued>>

\* the record delete_user stores
tombstone(user, t) == [user EXCEPT !.deleted = t]

\* delete_user closing the sessions of the user it deletes
sessions_after_delete_user_closed(ss, name) ==
    [t \in {x \in DOMAIN ss : ss[x].name # name} |-> ss[t]]

\* the session table after delete_user, which does not touch it
sessions_after_delete_user(ss, name) == ss

\* SessionManager::delete_user
DeleteUser(name, io) ==
    LET got == cdb_get(users_cdb, name, io)
        ok(c, u) == /\ created_users' = c
                    /\ updated_users' = u
                    /\ ret' = Ret("delete_user", name, EMPTY, "OK", NoToken)
        fail == /\ UNCHANGED <<created_users, updated_users>>
                /\ ret' = Ret("delete_user", name, EMPTY, "User not found.", NoToken)
    IN  /\ IF name \in DOMAIN created_users
           THEN ok(Del(created_users, name), updated_users)
           ELSE IF name \in DOMAIN updated_users
           THEN IF ~ is_deleted(updated_users[name])
                THEN ok(created_users,
                        Put(updated_users, name, tombstone(updated_users[name], now)))
                ELSE fail
           ELSE IF got.ok /\ ~ is_deleted(User_parse(name, got.val))
           THEN ok(created_users,
                   Put(updated_users, name, tombstone(User_parse(name, got.val), now)))
           ELSE fail
        /\ sessions' = sessions_after_delete_user(sessions, name)
        /\ UNCHANGED <<seqno, users_cdb, issued>>

\* ------------------------------------------------------------------- save
\* the merge loop of save: a line whose name is in the updated tier is
\* replaced by that record's line, any other line is copied; a line with no
\* blank is dropped
RECURSIVE merge_lines(_, _)
merge_lines(lines, upd) ==
    IF lines = <<>> THEN <<>>
    ELSE LET line == Head(lines)
             pos == find_whitespace(line)
             name == SubSeq(line, 1, pos - 1)
         IN  IF pos # 0
             THEN <<IF name \in DOMAIN upd THEN User_to_string(upd[name]) ELSE line>>
                    \o merge_lines(Tail(lines), upd)
             ELSE merge_lines(Tail(lines), upd)

\* the lines appended for the created tier, in the map's iteration order
created_lines(crt, order) == [i \in 1..Len(order) |-> User_to_string(crt[order[i]])]

\* the text written to users.new
users_new(recs, upd, crt, order) ==
    merge_lines(cdb_export(recs), upd) \o created_lines(crt, order)

\* where a save can go wrong
\*   export, open_old, create_new, write, flush, import, rename: the step
\*     returns an error;
\*   build: inside cdb_import the descriptor returned by open and the results
\*     of cdb_make_add and cdb_make_finish are not looked at, so when users.tmp
\*     cannot be written cdb_import still returns Ok; the file is left without
\*     its index and no key is found in it.
SaveFaults == {"none", "export", "open_old", "create_new", "write", "flush",
               "import", "build", "rename"}

\* the records of users.tmp after cdb_import returned Ok
users_tmp(f, lines) == IF f = "build" THEN <<>> ELSE cdb_import(lines)

\* what save returns
save_result(f) ==
    CASE f = "export" -> "Export failed."
      [] f \in {"open_old", "create_new", "write", "flush", "rename"} -> "io"
      [] f = "import" -> "Import failed."
      [] OTHER -> "OK"

\* save clearing the tiers before the rename has succeeded
tier_after_save_early(res, tier) == IF res \in {"OK", "io"} THEN EmptyMap ELSE tier

\* the map a tier holds after save returned res
tier_after_save(res, tier) == IF res = "OK" THEN EmptyMap ELSE tier

\* SessionManager::save
save(f, order) ==
    LET lines == users_new(users_cdb, updated_users, created_users, order)
        res == save_result(f)
    IN  [res |-> res,
         cdb |-> IF res = "OK" THEN users_tmp(f, lines) ELSE users_cdb,
         created |-> tier_after_save(res, created_users),
         updated |-> tier_after_save(res, updated_users)]

Save(f, order) ==
    LET r == save(f, order)
    IN  /\ users_cdb' = r.cdb
        /\ created_users' = r.created
        /\ updated_users' = r.updated
        /\ ret' = Ret("save", EMPTY, EMPTY, r.res, NoToken)
        /\ UNCHANGED <<sessions, seqno, issued>>

\* maintenance looking at the created tier only
autosave_due_created_only(crt, upd) == crt # EmptyMap

\* the condition under which a cycle of maintenance calls save
autosave_due(crt, upd) == crt # EmptyMap \/ upd # EmptyMap

\* maintenance: session_manager.clean()
Sweep == sessions' = clean(sessions, now)

\* maintenance: the save of a cycle, made when a tier is non-empty
Autosave(f, order) ==
    LET dirty == autosave_due(created_users, updated_users)
        r == save(f, order)
    IN  /\ ret' = Ret("maintenance", EMPTY, EMPTY, IF dirty THEN r.res ELSE "idle", NoToken)
        /\ IF dirty
           THEN /\ created_users' = r.created
                /\ updated_users' = r.updated
                /\ users_cdb' = r.cdb
           ELSE /\ f = "none"
                /\ UNCHANGED <<users_cdb, created_users, updated_users>>
        /\ UNCHANGED <<seqno, issued>>

\* one cycle of maintenance
Maintenance(f, order) == Sweep /\ Autosave(f, order)

\* the daemon is stopped and started again: main, SessionManager::new
Restart ==
    /\ created_users' = EmptyMap
    /\ updated_users' = EmptyMap
    /\ sessions' = EmptyMap
    /\ seqno' = 0
    /\ ret' = Ret("start", EMPTY, EMPTY, "OK", NoToken)
    /\ issued' = <<>>
    /\ UNCHANGED <<users_cdb>>

\* time::get_time: every operation takes one second of the clock
Clock(max) ==
    /\ now < StartTime + max
    /\ now' = now + 1

\* a handler or a cycle of maintenance taken as one step: the thread gets the
\* lock, runs and lets go of it, and no thread is left inside
Serial == UNCHANGED <<lock, pc, request, out>>

\* the tokens a client can present: those issued since the daemon started and
\* one that was never issued
Tokens == {<<r, s>> : r \in RandPrefixes, s \in 0..seqno}

\* handler: one request, with its name from names, a new password from
\* newpw and a password to try from trypw
Request(max, names, newpw, trypw) ==
    \/ \E n \in names, p \in trypw, io \in BOOLEAN :
          Clock(max) /\ Serial /\ Auth(n, p, io)
    \/ \E n \in names, p \in trypw, io \in BOOLEAN, r \in RandPrefixes :
          Clock(max) /\ Serial /\ Login(n, p, io, r)
    \/ \E t \in Tokens : Clock(max) /\ Serial /\ IsLoggedIn(t)
    \/ \E t \in Tokens : Clock(max) /\ Serial /\ Logout(t)
    \/ \E n \in names, p \in newpw, io \in BOOLEAN, r \in RandPrefixes :
          Clock(max) /\ Serial /\ CreateUser(n, p, io, r)
    \/ \E n \in names, p \in newpw, io \in BOOLEAN :
          Clock(max) /\ Serial /\ UpdateUser(n, p, io)
    \/ \E n \in names, io \in BOOLEAN : Clock(max) /\ Serial /\ DeleteUser(n, io)
    \/ \E f \in SaveFaults, o \in Orders(DOMAIN created_users) :
          Clock(max) /\ Serial /\ Save(f, o)

\* maintenance: one cycle of the maintenance task
Cycle(max) ==
    \E f \in SaveFaults, o \in Orders(DOMAIN created_users) :
       Clock(max) /\ Serial /\ Maintenance(f, o)

\* the daemon is stopped and started again
Reboot(max) == Clock(max) /\ Serial /\ Restart

Next ==
    \/ Request(MaxTick, Names, Passwords, Passwords)
    \/ Cycle(MaxTick)
    \/ Reboot(MaxTick)

Spec == Init /\ [][Next]_vars

\* the daemon serving one user who is created without a password
NextLock ==
    \/ Request(MaxTickLock, {NameA}, {EMPTY}, Passwords)
    \/ Cycle(MaxTickLock)
    \/ Reboot(MaxTickLock)

SpecLock == Init /\ [][NextLock]_vars

\* the clock, read up to the bound and no further
ClockCapped(max) == now' = IF now < StartTime + max THEN now + 1 ELSE now

\* the ways a save goes wrong in SpecLive: with an error before the rename,
\* with an error of the rename, and unnoticed
LiveFaults == {"import", "rename", "build"}

\* maintenance in SpecLive: a cycle whose save goes wrong counts against the
\* bound, like a client request; a cycle whose save goes right can always be
\* taken
CycleLive(max) ==
    \/ \E f \in LiveFaults, o \in Orders(DOMAIN created_users) :
          Clock(max) /\ Serial /\ Maintenance(f, o)
    \/ \E o \in Orders(DOMAIN created_users) :
          ClockCapped(max) /\ Serial /\ Maintenance("none", o)

\* the daemon serving one user until the clients fall silent and the saves
\* stop failing (the bound is reached), the maintenance task running on
NextLive ==
    \/ \E p \in Passwords : Clock(MaxTickLive) /\ Serial /\ Auth(NameA, p, FALSE)
    \/ \E r \in RandPrefixes :
          Clock(MaxTickLive) /\ Serial /\ CreateUser(NameA, PassP, FALSE, r)
    \/ Clock(MaxTickLive) /\ Serial /\ UpdateUser(NameA, PassP, FALSE)
    \/ Clock(MaxTickLive) /\ Serial /\ DeleteUser(NameA, FALSE)
    \/ \E f \in LiveFaults \cup {"none"}, o \in Orders(DOMAIN created_users) :
          Clock(MaxTickLive) /\ Serial /\ Save(f, o)
    \/ CycleLive(MaxTickLive)

\* the maintenance thread loops for ever and is scheduled again and again
SpecLive == Init /\ [][NextLive]_vars /\ WF_vars(CycleLive(MaxTickLive))

\* time::get_time between two operations: the clock stands still or goes
\* forward by one of the gaps
Elapse(gaps, max) ==
    \E d \in gaps : now + d <= StartTime + max /\ now' = now + d

Gaps == {0, SESSION_PERIOD \div 2, SESSION_PERIOD \div 2 + 1}

\* the daemon serving the sessions of one user over more than a session
\* period
NextSess ==
    \/ \E r \in RandPrefixes :
          /\ Len(issued) < MaxIssuedSess
          /\ Elapse(Gaps, MaxTimeSess)
          /\ Serial
          /\ CreateUser(NameA, PassP, FALSE, r)
    \/ \E r \in RandPrefixes :
          /\ Len(issued) < MaxIssuedSess
          /\ Elapse(Gaps, MaxTimeSess)
          /\ Serial
          /\ Login(NameA, PassP, FALSE, r)
    \/ \E t \in Tokens \cup {NoToken} : Elapse(Gaps, MaxTimeSess) /\ Serial /\ IsLoggedIn(t)
    \/ \E t \in Tokens \cup {NoToken} : Elapse(Gaps, MaxTimeSess) /\ Serial /\ Logout(t)
    \/ Elapse(Gaps, MaxTimeSess) /\ Serial /\ DeleteUser(NameA, FALSE)
    \/ \E o \in Orders(DOMAIN created_users) :
          Elapse(Gaps, MaxTimeSess) /\ Serial /\ Maintenance("none", o)

SpecSess == Init /\ [][NextSess]_vars

\* the daemon issuing tokens to one user, all within one second of the clock
NextSeq ==
    \/ \E r \in RandPrefixes :
          /\ Len(issued) < MaxIssuedSeq
          /\ Elapse({0}, 0)
          /\ Serial
          /\ CreateUser(NameA, PassP, FALSE, r)
    \/ \E r \in RandPrefixes :
          /\ Len(issued) < MaxIssuedSeq
          /\ Elapse({0}, 0)
          /\ Serial
          /\ Login(NameA, PassP, FALSE, r)
    \/ Elapse({0}, 0) /\ Serial /\ DeleteUser(NameA, FALSE)

SpecSeq == Init /\ [][NextSeq]_vars

\* the tokens the clients were given since the daemon started
Given == {<<r, issued[i]>> : r \in RandPrefixes, i \in 1..Len(issued)}

FrameGaps == {0, SESSION_PERIOD \div 2 + 1}

\* the clock between two operations of the daemon below
Pause == Elapse(FrameGaps, MaxTimeFrame) /\ Serial

\* the daemon serving every command for one user and his sessions over more
\* than a session period, with maintenance in between
NextFrame ==
    \/ Pause /\ Auth(NameA, PassP, FALSE)
    \/ \E r \in RandPrefixes :
          Len(issued) < MaxIssuedFrame /\ Pause /\ Login(NameA, PassP, FALSE, r)
    \/ \E t \in Given : Pause /\ IsLoggedIn(t)
    \/ \E t \in Given : Pause /\ Logout(t)
    \/ \E r \in RandPrefixes :
          Len(issued) < MaxIssuedFrame /\ Pause /\ CreateUser(NameA, PassP, FALSE, r)
    \/ Pause /\ UpdateUser(NameA, PassP, FALSE)
    \/ Pause /\ DeleteUser(NameA, FALSE)
    \/ \E o \in Orders(DOMAIN created_users) : Pause /\ Save("none", o)
    \/ \E o \in Orders(DOMAIN created_users) : Pause /\ Maintenance("none", o)

SpecFrame == Init /\ [][NextFrame]_vars

\* ----------------------------------------------- handler threads and the lock
\* bytes_to_string: two upper-case hexadecimal digits per byte
HexDigit == <<"0", "1", "2", "3", "4", "5", "6", "7", "8", "9",
              "A", "B", "C", "D", "E", "F">>
RECURSIVE bytes_to_string(_)
bytes_to_string(bytes) ==
    IF bytes = <<>> THEN <<>>
    ELSE <<HexDigit[((Head(bytes) \div 16) % 16) + 1], HexDigit[(Head(bytes) % 16) + 1]>>
           \o bytes_to_string(Tail(bytes))

\* the key of the session table that a token argument names
session_key(text) ==
    IF \E t \in DOMAIN sessions : bytes_to_string(t) = text
    THEN CHOOSE t \in DOMAIN sessions : bytes_to_string(t) = text
    ELSE NoToken

\* the command words of handler
AUTH == <<"A", "U", "T", "H">>
LOGIN == <<"L", "O", "G", "I", "N">>
SESSION == <<"S", "E", "S", "S", "I", "O", "N">>
LOGOUT == <<"L", "O", "G", "O", "U", "T">>
CREATE == <<"C", "R", "E", "A", "T", "E">>
UPDATE == <<"U", "P", "D", "A", "T", "E">>
DELETE == <<"D", "E", "L", "E", "T", "E">>
SAVE == <<"S", "A", "V", "E">>
Commands == {AUTH, LOGIN, SESSION, LOGOUT, CREATE, UPDATE, DELETE, SAVE}

\* the request lines the clients send: the eight commands, a word that is
\* no command, and a line without a word
RequestLines ==
    {AUTH \o <<SPC>> \o NameA \o <<SPC>> \o PassP,
     LOGIN \o <<SPC>> \o NameA \o <<SPC>> \o PassP,
     CREATE \o <<SPC>> \o NameA \o <<SPC>> \o PassP,
     UPDATE \o <<SPC>> \o NameA \o <<SPC>> \o PassP,
     DELETE \o <<SPC>> \o NameA,
     SAVE,
     <<"X">>,
     <<SPC>>}
      \cup {SESSION \o <<SPC>> \o bytes_to_string(t) : t \in Tokens}
      \cup {LOGOUT \o <<SPC>> \o bytes_to_string(t) : t \in Tokens}

\* handler: line.trim().split_whitespace() and sp.next().unwrap_or("")
words(c) == split_whitespace(request[c].text)
arg(c, i) == IF i <= Len(words(c)) THEN words(c)[i] ELSE EMPTY

\* the response line handler writes for what the manager returned: OK, with
\* the token after LOGIN and CREATE and the owner's name after SESSION and
\* LOGOUT, or NG with the error
response(r) ==
    IF r.res = "OK"
    THEN [kind |-> "OK",
          text |-> IF r.op \in {"login", "create_user"} THEN bytes_to_string(r.tok)
                   ELSE IF r.op \in {"is_logged_in", "logout"} THEN r.name
                   ELSE EMPTY,
          error |-> ""]
    ELSE [kind |-> "NG", text |-> EMPTY, error |-> r.res]
ERROR == [kind |-> "ERROR", text |-> EMPTY, error |-> ""]

\* Mutex::lock taken although another thread holds it
lock_free_ignored(l) == TRUE

\* Mutex::lock: the thread goes on when no thread holds the lock
lock_free(l) == l = NoHolder

\* the manager's state and the clock
manager == <<created_users, updated_users, sessions, seqno, users_cdb, ret, issued>>

\* main: listener.incoming() hands a connection to a new handler thread
H_Accept(c) ==
    /\ pc[c] \in {"idle", "closed"}
    /\ pc' = [pc EXCEPT ![c] = "read"]
    /\ request' = [request EXCEPT ![c] = NoLine]
    /\ out' = [out EXCEPT ![c] = <<>>]
    /\ UNCHANGED <<manager, now, lock>>

\* handler: read_line, then the look at the first word; a line without a
\* word is answered by nothing, a word that is no command by ERROR
H_Read(c) ==
    /\ pc[c] = "read"
    /\ \E text \in RequestLines :
          /\ request' = [request EXCEPT ![c] = [read |-> TRUE, text |-> text]]
          /\ IF split_whitespace(text) = <<>>
             THEN pc' = [pc EXCEPT ![c] = "closed"] /\ out' = out
             ELSE IF split_whitespace(text)[1] \notin Commands
             THEN /\ pc' = [pc EXCEPT ![c] = "closed"]
                  /\ out' = [out EXCEPT ![c] = Append(@, ERROR)]
             ELSE pc' = [pc EXCEPT ![c] = "lock"] /\ out' = out
    /\ UNCHANGED <<manager, now, lock>>

\* handler: read_line returns an error and the thread ends
H_ReadError(c) ==
    /\ pc[c] = "read"
    /\ pc' = [pc EXCEPT ![c] = "closed"]
    /\ UNCHANGED <<manager, now, lock, request, out>>

\* handler: session_manager.lock()
H_Lock(c) ==
    /\ pc[c] = "lock"
    /\ lock_free(lock)
    /\ now < StartTime + MaxTickConc
    /\ lock' = c
    /\ pc' = [pc EXCEPT ![c] = "locked"]
    /\ UNCHANGED <<manager, now, request, out>>

\* handler: the manager operation of the command, and the response written
\* while the lock is held
H_Call(c) ==
    /\ pc[c] = "locked"
    /\ Clock(MaxTickConc)
    /\ LET cmd == arg(c, 1)
       IN  \/ cmd = AUTH /\ Auth(arg(c, 2), arg(c, 3), FALSE)
           \/ cmd = LOGIN /\ \E r \in RandPrefixes : Login(arg(c, 2), arg(c, 3), FALSE, r)
           \/ cmd = SESSION /\ IsLoggedIn(session_key(arg(c, 2)))
           \/ cmd = LOGOUT /\ Logout(session_key(arg(c, 2)))
           \/ cmd = CREATE /\ \E r \in RandPrefixes :
                                 CreateUser(arg(c, 2), arg(c, 3), FALSE, r)
           \/ cmd = UPDATE /\ UpdateUser(arg(c, 2), arg(c, 3), FALSE)
           \/ cmd = DELETE /\ DeleteUser(arg(c, 2), FALSE)
           \/ cmd = SAVE /\ \E o \in Orders(DOMAIN created_users) : Save("none", o)
    /\ out' = [out EXCEPT ![c] = Append(@, response(ret'))]
    /\ pc' = [pc EXCEPT ![c] = "unlock"]
    /\ UNCHANGED <<lock, request>>

\* handler: the guard is dropped and the connection closed
H_Unlock(c) ==
    /\ pc[c] = "unlock"
    /\ lock' = NoHolder
    /\ pc' = [pc EXCEPT ![c] = "closed"]
    /\ UNCHANGED <<manager, now, request, out>>

\* maintenance: session_manager.lock()
M_Lock ==
    /\ pc[MaintenanceThread] = "sleep"
    /\ lock_free(lock)
    /\ now < StartTime + MaxTickConc
    /\ lock' = MaintenanceThread
    /\ pc' = [pc EXCEPT ![MaintenanceThread] = "clean"]
    /\ UNCHANGED <<manager, now, request, out>>

\* maintenance: session_manager.clean()
M_Clean ==
    /\ pc[MaintenanceThread] = "clean"
    /\ Clock(MaxTickConc)
    /\ Sweep
    /\ pc' = [pc EXCEPT ![MaintenanceThread] = "save"]
    /\ UNCHANGED <<created_users, updated_users, seqno, users_cdb, ret, issued,
                   lock, request, out>>

\* maintenance: the save of the cycle
M_Save ==
    /\ pc[MaintenanceThread] = "save"
    /\ \E f \in {"none", "import"}, o \in Orders(DOMAIN created_users) : Autosave(f, o)
    /\ pc' = [pc EXCEPT ![MaintenanceThread] = "unlock"]
    /\ UNCHANGED <<sessions, now, lock, request, out>>

\* maintenance: the guard is dropped and the thread sleeps
M_Unlock ==
    /\ pc[MaintenanceThread] = "unlock"
    /\ lock' = NoHolder
    /\ pc' = [pc EXCEPT ![MaintenanceThread] = "sleep"]
    /\ UNCHANGED <<manager, now, request, out>>

\* the daemon with its threads interleaved
NextConc ==
    \/ \E c \in Conns : H_Accept(c)
    \/ \E c \in Conns : H_Read(c)
    \/ \E c \in Conns : H_ReadError(c)
    \/ \E c \in Conns : H_Lock(c)
    \/ \E c \in Conns : H_Call(c)
    \/ \E c \in Conns : H_Unlock(c)
    \/ M_Lock
    \/ M_Clean
    \/ M_Save
    \/ M_Unlock

SpecConc == Init /\ [][NextConc]_vars

\* ------------------------------------------------------------- properties
\* the records in the created and the updated tier
Held == {created_users[n] : n \in DOMAIN created_users}
          \cup {updated_users[n] : n \in DOMAIN updated_users}

\* the record found for n before and after a step
Before(n) == find(created_users, updated_users, users_cdb, n)
After(n) == find(created_users', updated_users', users_cdb', n)

\* the step is a save (the SAVE command or the autosave of a cycle)
SaveStep == ret'.op \in {"save", "maintenance"}
SaveErrors == {"Export failed.", "Import failed.", "io"}

\* the value stored for a record: its line without the name and the blank
\* that follows it
StoredValue(u) ==
    SubSeq(User_to_string(u), Len(u.name) + 2, Len(User_to_string(u)))

\* C1: no name is a key of both the created tier and the updated tier.
C1_Disjoint == (DOMAIN created_users) \cap (DOMAIN updated_users) = {}

\* C1 witness: both tiers hold a record.
C1_BothTiers == created_users # EmptyMap /\ updated_users # EmptyMap

\* C2: every name that is a key of the created tier is absent from the live
\* CDB, whatever the base-tier lookups of the operations returned.
C2_CreatedNotOnDisk ==
    \A n \in DOMAIN created_users : ~ cdb_get(users_cdb, n, FALSE).ok

\* C3: when save returns Ok both tiers are empty, the live CDB holds the
\* record of every name that was in a tier, and every other name keeps what
\* the live CDB held for it.
C3_SaveOk ==
    [][(SaveStep /\ ret'.res = "OK") =>
         /\ created_users' = EmptyMap
         /\ updated_users' = EmptyMap
         /\ \A n \in DOMAIN created_users :
               cdb_get(users_cdb', n, FALSE) = Ok(StoredValue(created_users[n]))
         /\ \A n \in DOMAIN updated_users :
               cdb_get(users_cdb', n, FALSE) = Ok(StoredValue(updated_users[n]))
         /\ \A n \in Names \ ((DOMAIN created_users) \cup (DOMAIN updated_users)) :
               cdb_get(users_cdb', n, FALSE) = cdb_get(users_cdb, n, FALSE)]_vars

\* C4: when save returns an error, the created tier, the updated tier and the
\* live CDB are what they were before the call.
C4_SaveErr ==
    [][(SaveStep /\ ret'.res \in SaveErrors) =>
         UNCHANGED <<created_users, updated_users, users_cdb>>]_vars

\* C4 witness: a SAVE has just failed at the import while both the overlay
\* and the live CDB hold records.
C4_FailedSave ==
    /\ ret.op = "save"
    /\ ret.res = "Import failed."
    /\ updated_users # EmptyMap
    /\ users_cdb # <<>>

\* C5: the live CDB changes only in a save that returns Ok, and then to the
\* database built from the complete merged listing.
C5_CommitPoint ==
    [][users_cdb' # users_cdb =>
         /\ SaveStep
         /\ ret'.res = "OK"
         /\ \E o \in Orders(DOMAIN created_users) :
               users_cdb' = cdb_import(users_new(users_cdb, updated_users, created_users, o))]_vars

\* C6: a held record with fail_count >= LOCK_COUNT is locked; auth and login
\* on a locked record fail; auth, login, update_user and save never unlock a
\* locked record.
C6_Locked ==
    [][/\ \A u \in Held' : u.fail_count >= LOCK_COUNT => is_locked(u)
       /\ \A n \in Names :
            (Before(n).found /\ is_locked(Before(n).user)) =>
               /\ (ret'.op \in {"auth", "login"} /\ ret'.name = n) => ret'.res # "OK"
               /\ (ret'.op \in {"auth", "login", "update_user", "save", "maintenance"}
                     /\ After(n).found) => is_locked(After(n).user)]_vars

\* C7: on a user that is neither locked nor deleted, a password mismatch of
\* auth or login adds one to fail_count and sets failed to the time, a match
\* sets fail_count to 0, the record is locked exactly when fail_count reaches
\* LOCK_COUNT, and a save leaves the count and the lock as they were.
C7_Lockout ==
    [][\A n \in Names :
         (Before(n).found /\ ~ is_locked(Before(n).user) /\ ~ is_deleted(Before(n).user)) =>
            /\ (/\ ret'.op \in {"auth", "login"}
                /\ ret'.name = n
                /\ n \in (DOMAIN created_users') \cup (DOMAIN updated_users')) =>
                  IF ret'.res = "OK"
                  THEN After(n).user.fail_count = 0
                  ELSE /\ After(n).user.fail_count = Before(n).user.fail_count + 1
                       /\ After(n).user.failed = now
                       /\ is_locked(After(n).user) <=> After(n).user.fail_count = LOCK_COUNT
                       /\ is_locked(After(n).user) => After(n).user.locked = now
            /\ (SaveStep /\ After(n).found) =>
                  /\ After(n).user.fail_count = Before(n).user.fail_count
                  /\ After(n).user.locked = Before(n).user.locked]_vars

\* C8: parsing the stored value of a held record gives the record back.
C8_RoundTrip == \A u \in Held : User_parse(u.name, StoredValue(u)) = u

\* C9: a save that returns Ok leaves the record found for every name as it
\* was.
C9_SaveKeepsView ==
    [][(SaveStep /\ ret'.res = "OK") => \A n \in Names : After(n) = Before(n)]_vars

\* C10: create_user fails and changes nothing when the name is in the created
\* tier, the updated tier or the live CDB; otherwise it inserts the fresh
\* record, adds one session owned by the name and returns its token.
C10_CreateUser ==
    [][ret'.op = "create_user" =>
         IF \/ ret'.name \in DOMAIN created_users
            \/ ret'.name \in DOMAIN updated_users
            \/ cdb_get(users_cdb, ret'.name, FALSE).ok
         THEN /\ ret'.res = "User already exists."
              /\ UNCHANGED <<created_users, updated_users, sessions, seqno, users_cdb>>
         ELSE /\ ret'.res = "OK"
              /\ created_users' =
                    Put(created_users, ret'.name,
                        [name |-> ret'.name, password |-> ret'.pass, created |-> now,
                         updated |-> 0, deleted |-> 0, last_loggedin |-> 0,
                         failed |-> 0, fail_count |-> 0, locked |-> 0])
              /\ ret'.tok \notin DOMAIN sessions
              /\ DOMAIN sessions' = (DOMAIN sessions) \cup {ret'.tok}
              /\ sessions'[ret'.tok].name = ret'.name
              /\ \A t \in DOMAIN sessions : sessions'[t] = sessions[t]
              /\ UNCHANGED <<updated_users, users_cdb>>]_vars

\* the record found for n is a tombstone of the updated tier or the base tier
Tombstoned(n) ==
    /\ n \notin DOMAIN created_users
    /\ Before(n).found
    /\ is_deleted(Before(n).user)
TombstonedAfter(n) ==
    /\ n \notin DOMAIN created_users'
    /\ After(n).found
    /\ is_deleted(After(n).user)

\* C11: while the daemon runs, a user deleted from the updated tier or the
\* base tier stays a tombstone: delete_user leaves a record with deleted # 0
\* in the overlay or the live CDB, every later step (saves included) keeps
\* it, and on a tombstone auth and login fail, update_user and delete_user
\* answer "User not found." and create_user answers "User already exists.".
C11_Tombstone ==
    [][\A n \in Names :
         /\ (/\ ret'.op = "delete_user"
             /\ ret'.name = n
             /\ ret'.res = "OK"
             /\ n \notin DOMAIN created_users) => TombstonedAfter(n)
         /\ (Tombstoned(n) /\ ret'.op # "start") =>
               /\ TombstonedAfter(n)
               /\ ret'.name = n =>
                     /\ ret'.op = "auth" => ret'.res = "Authentication failed."
                     /\ ret'.op = "login" => ret'.res = "Login failed."
                     /\ ret'.op \in {"update_user", "delete_user"} =>
                           ret'.res = "User not found."
                     /\ ret'.op = "create_user" =>
                           ret'.res = "User already exists."]_vars

\* a session whose period has more than elapsed
Expired(tok) ==
    tok \in DOMAIN sessions /\ sessions[tok].last_accessed + SESSION_PERIOD < now

\* C12: is_logged_in succeeds exactly when the token is in the session table
\* with last_accessed + SESSION_PERIOD > now; it then sets that session's
\* last_accessed to now and returns the owner's name; otherwise it returns
\* "Session not found." and leaves the table as it was.
C12_IsLoggedIn ==
    [][ret'.op = "is_logged_in" =>
         IF /\ ret'.tok \in DOMAIN sessions
            /\ sessions[ret'.tok].last_accessed + SESSION_PERIOD > now
         THEN /\ ret'.res = "OK"
              /\ ret'.name = sessions[ret'.tok].name
              /\ sessions' = [sessions EXCEPT ![ret'.tok].last_accessed = now]
         ELSE /\ ret'.res = "Session not found."
              /\ sessions' = sessions]_vars

\* C12 witness: is_logged_in has just refused a token whose session is still
\* in the table, its period having elapsed.
C12_ExpiredRefused ==
    /\ ret.op = "is_logged_in"
    /\ ret.res = "Session not found."
    /\ ret.tok \in DOMAIN sessions
    /\ sessions[ret.tok].last_accessed + SESSION_PERIOD <= now

\* C13: a session untouched for more than SESSION_PERIOD is refused by
\* is_logged_in and stays expired for as long as it is in the table; a sweep
\* removes exactly the sessions with last_accessed + SESSION_PERIOD < now and
\* keeps every other session as it was.
C13_Expiry ==
    [][/\ \A t \in DOMAIN sessions :
            Expired(t) =>
               /\ (ret'.op = "is_logged_in" /\ ret'.tok = t) =>
                      ret'.res = "Session not found."
               /\ t \in DOMAIN sessions' =>
                      sessions'[t].last_accessed + SESSION_PERIOD < now'
       /\ ret'.op = "maintenance" =>
            /\ DOMAIN sessions' = {t \in DOMAIN sessions : ~ Expired(t)}
            /\ \A t \in DOMAIN sessions' : sessions'[t] = sessions[t]]_vars

\* C13 witness: after a sweep later than a session period from the start,
\* one of the two sessions that were opened is gone and the other, touched
\* within the period, is kept.
C13_Swept ==
    /\ ret.op = "maintenance"
    /\ Len(issued) = 2
    /\ now > StartTime + SESSION_PERIOD
    /\ \E t \in DOMAIN sessions :
          /\ DOMAIN sessions = {t}
          /\ sessions[t].last_accessed + SESSION_PERIOD >= now

\* C14: logout of a token in the session table removes that session only and
\* returns its owner's name; right after a successful logout, is_logged_in
\* and logout of the same token fail with "Session not found.".
C14_Logout ==
    [][/\ (ret'.op = "logout" /\ ret'.tok \in DOMAIN sessions) =>
            /\ ret'.res = "OK"
            /\ ret'.name = sessions[ret'.tok].name
            /\ sessions' = Del(sessions, ret'.tok)
       /\ (/\ ret.op = "logout"
           /\ ret.res = "OK"
           /\ ret'.op \in {"is_logged_in", "logout"}
           /\ ret'.tok = ret.tok) =>
            /\ ret'.res = "Session not found."
            /\ sessions' = sessions]_vars

\* C14 witness: a logout has just removed one of two sessions.
C14_LoggedOut ==
    /\ ret.op = "logout"
    /\ ret.res = "OK"
    /\ ret.tok \notin DOMAIN sessions
    /\ Len(issued) = 2
    /\ Cardinality(DOMAIN sessions) = 1

\* C15: the sequence byte of each token issued is that of the token before
\* it plus one modulo 256 (255 is followed by 0), so two tokens issued one
\* after the other differ in it and any 256 tokens issued in a row have
\* pairwise distinct sequence bytes.
C15_SeqByte ==
    /\ \A i \in 1..(Len(issued) - 1) :
          /\ issued[i + 1] = (issued[i] + 1) % (U8_MAX + 1)
          /\ issued[i + 1] # issued[i]
    /\ \A i, j \in 1..Len(issued) :
          (i < j /\ j - i < U8_MAX + 1) => issued[i] # issued[j]
    /\ \A i \in 1..Len(issued) : issued[i] \in 0..U8_MAX

\* C15 witness: more than 256 tokens were issued, the counter having gone
\* from 255 to 0.
C15_Wrapped ==
    /\ Len(issued) > U8_MAX + 1
    /\ \E i \in 1..(Len(issued) - 1) : issued[i] = U8_MAX /\ issued[i + 1] = 0
    /\ seqno = issued[Len(issued)]

\* C18: no record with the empty name is ever in the created tier, the
\* updated tier or the live CDB; update_user and delete_user of the empty
\* name answer "User not found."; is_logged_in and logout of the empty token
\* answer "Session not found.".
C18_EmptyArgument ==
    [][/\ EMPTY \notin DOMAIN created_users'
       /\ EMPTY \notin DOMAIN updated_users'
       /\ ~ cdb_get(users_cdb', EMPTY, FALSE).ok
       /\ (ret'.op \in {"update_user", "delete_user"} /\ ret'.name = EMPTY) =>
             ret'.res = "User not found."
       /\ (ret'.op \in {"is_logged_in", "logout"} /\ ret'.tok = NoToken) =>
             ret'.res = "Session not found."]_vars

\* C20: every key of the updated tier is a key of the live CDB and names its
\* own record; a name enters the updated tier only in an operation on that
\* name that found it in the base tier, and, while the daemon runs, leaves it
\* only in a save that returned Ok and wrote its record to the live CDB.
C20_UpdatedOnDisk ==
    [][/\ \A n \in DOMAIN updated_users' :
            /\ cdb_get(users_cdb', n, FALSE).ok
            /\ updated_users'[n].name = n
       /\ \A n \in (DOMAIN updated_users') \ (DOMAIN updated_users) :
            /\ ret'.op \in {"auth", "login", "update_user", "delete_user"}
            /\ ret'.name = n
            /\ n \notin DOMAIN created_users
            /\ cdb_get(users_cdb, n, FALSE).ok
       /\ \A n \in (DOMAIN updated_users) \ (DOMAIN updated_users') :
            \/ ret'.op = "start"
            \/ /\ SaveStep
               /\ ret'.res = "OK"
               /\ cdb_get(users_cdb', n, FALSE) = Ok(StoredValue(updated_users[n]))]_vars

\* the clients have fallen silent and the saves have stopped failing
Quiet == now = StartTime + MaxTickLive

\* C19: a cycle of maintenance calls save whenever a tier is non-empty, and
\* a save error leaves the task running: once the clients are silent and the
\* codec and the rename succeed, both tiers become empty, the save that
\* empties them having written their records to the live CDB.
C19_Autosave ==
    /\ [][ret'.op = "maintenance" =>
            /\ (created_users # EmptyMap \/ updated_users # EmptyMap) =>
                   ret'.res \in SaveErrors \cup {"OK"}
            /\ (Quiet /\ ret'.res = "OK") =>
                   /\ \A n \in DOMAIN created_users :
                         cdb_get(users_cdb', n, FALSE) = Ok(StoredValue(created_users[n]))
                   /\ \A n \in DOMAIN updated_users :
                         cdb_get(users_cdb', n, FALSE) = Ok(StoredValue(updated_users[n]))]_vars
    /\ Quiet ~> (created_users = EmptyMap /\ updated_users = EmptyMap)

\* C19 witness: an autosave has just failed, the updated tier still holds a
\* record, and from here on the clients are silent and the saves succeed.
C19_FailedAutosave ==
    /\ Quiet
    /\ ret.op = "maintenance"
    /\ ret.res \in SaveErrors
    /\ updated_users # EmptyMap

\* the thread is inside the manager: it holds the guard of the lock
Inside(t) ==
    IF t = MaintenanceThread THEN pc[t] \in {"clean", "save", "unlock"}
    ELSE pc[t] \in {"locked", "unlock"}

\* C16: at most one thread is inside the manager at any time and it is the
\* holder of the lock; the manager's state changes only in a step of that
\* thread; between the sweep and the save of a maintenance cycle no handler
\* enters the manager and the manager's state is left as the sweep left it.
C16_Exclusion ==
    [][/\ \A t, u \in Threads : (Inside(t)' /\ Inside(u)') => t = u
       /\ \A t \in Threads : Inside(t)' => lock' = t
       /\ manager' # manager =>
             /\ lock # NoHolder
             /\ lock' = lock
             /\ pc'[lock] # pc[lock]
             /\ \A t \in Threads \ {lock} : pc'[t] = pc[t]
       /\ (pc[MaintenanceThread] = "save" /\ pc'[MaintenanceThread] = "save") =>
             /\ manager' = manager
             /\ \A c \in Conns : ~ Inside(c)']_vars

\* C16 witness: maintenance is between its sweep and its save while a
\* handler waits for the lock and another has been served.
C16_Waiting ==
    /\ pc[MaintenanceThread] = "save"
    /\ \E c, d \in Conns : pc[c] = "lock" /\ pc[d] = "closed" /\ Len(out[d]) = 1

\* C17: a connection on which a request line was read has, when it is
\* closed, exactly one response line: OK or NG if the first word is one of
\* the eight commands, ERROR for any other line, a line without a word
\* included.
C17_OneResponse ==
    \A c \in Conns :
       (pc[c] = "closed" /\ request[c].read) =>
          /\ Len(out[c]) = 1
          /\ IF /\ split_whitespace(request[c].text) # <<>>
                /\ split_whitespace(request[c].text)[1] \in Commands
             THEN out[c][1].kind \in {"OK", "NG"}
             ELSE out[c][1].kind = "ERROR"

\* a session whose period of inactivity has elapsed, swept or not yet
Lapsed(tok) ==
    tok \in DOMAIN sessions /\ sessions[tok].last_accessed + SESSION_PERIOD <= now

\* C21: for a token whose session is in the table with last_accessed +
\* SESSION_PERIOD <= now, is_logged_in and logout both return "Session not
\* found."; so logout answers OK only for a token that is_logged_in would
\* have accepted at that moment.
C21_LapsedAbsent ==
    [][/\ (ret'.op \in {"is_logged_in", "logout"} /\ Lapsed(ret'.tok)) =>
            ret'.res = "Session not found."
       /\ (ret'.op = "logout" /\ ret'.res = "OK") =>
            /\ ret'.tok \in DOMAIN sessions
            /\ session_live(sessions[ret'.tok], now)]_vars

\* the user of that name is in no tier
Gone(name) ==
    /\ name \notin DOMAIN created_users
    /\ name \notin DOMAIN updated_users \/ is_deleted(updated_users[name])
    /\ \/ ~ cdb_get(users_cdb, name, FALSE).ok
       \/ is_deleted(User_parse(name, cdb_get(users_cdb, name, FALSE).val))

\* C22: while the daemon runs, a successful login or create_user adds
\* exactly one session, that of its token, and advances the counter by one; a
\* successful is_logged_in sets one session's last_accessed; logout removes
\* at most the session of its token and a sweep only removes sessions; auth,
\* a failed login, a failed create_user, a failed is_logged_in, update_user,
\* delete_user and save leave the table and the counter as they were; so
\* is_logged_in answers OK for a live session whether or not its owner is
\* still a user.
C22_SessionFrame ==
    [][ret'.op # "start" =>
         /\ (ret'.op \in {"login", "create_user"} /\ ret'.res = "OK") =>
               /\ seqno' = (seqno + 1) % (U8_MAX + 1)
               /\ ret'.tok \notin DOMAIN sessions
               /\ sessions' = Put(sessions, ret'.tok, Session_new(ret'.name, now))
               /\ Cardinality(DOMAIN sessions') = Cardinality(DOMAIN sessions) + 1
         /\ (ret'.op = "is_logged_in" /\ ret'.res = "OK") =>
               /\ ret'.tok \in DOMAIN sessions
               /\ sessions' = [sessions EXCEPT ![ret'.tok].last_accessed = now]
               /\ seqno' = seqno
         /\ ret'.op = "logout" =>
               /\ sessions' = IF ret'.res = "OK" THEN Del(sessions, ret'.tok) ELSE sessions
               /\ seqno' = seqno
         /\ ret'.op = "maintenance" =>
               /\ DOMAIN sessions' \subseteq DOMAIN sessions
               /\ \A t \in DOMAIN sessions' : sessions'[t] = sessions[t]
               /\ seqno' = seqno
         /\ (\/ ret'.op \in {"auth", "update_user", "delete_user", "save"}
             \/ ret'.op \in {"login", "create_user", "is_logged_in"} /\ ret'.res # "OK") =>
               /\ sessions' = sessions
               /\ seqno' = seqno
         /\ (/\ ret'.op = "is_logged_in"
             /\ ret'.tok \in DOMAIN sessions
             /\ sessions[ret'.tok].last_accessed + SESSION_PERIOD > now) =>
               ret'.res = "OK"]_vars

\* C22 witness: is_logged_in has just answered OK for the session of a user
\* who was deleted after the session was opened.
C22_OwnerGone ==
    /\ ret.op = "is_logged_in"
    /\ ret.res = "OK"
    /\ ret.tok \in DOMAIN sessions
    /\ Gone(sessions[ret.tok].name)

====
